---- MODULE Spec2Model ----
(***************************************************************************)
(* Model of the kitchen-sink documentation generator.                      *)
(*                                                                         *)
(*   part_000  the two-level variant (confirm / watch / static options,    *)
(*             raw asset directories inside the mapping)                   *)
(*   part_001  the single-level variant (always prompts, creates the       *)
(*             output directory inside emit)                               *)
(*                                                                         *)
(* Three specifications share the variables below:                         *)
(*   SpecBuild  the Tree Builder (build) and the synchronous head of emit  *)
(*   SpecCrawl  one crawl: traversal guard, explore, resolve, emit         *)
(*   SpecRun    run(), the prompt, mkdir and the watch callback            *)
(***************************************************************************)
EXTENDS Integers, Sequences, FiniteSets, TLC

VARIABLES
    \* ---- SpecBuild ----
    bPhase,     \* "ready" | "built" | "emitted"
    bStore,     \* the mapping handed to build: key -> value (mutated in place)
    bArg,       \* the structure handed to build, or the forest handed to emit
    bRet,       \* what build returned
    bForest,    \* the model computed by emit (line 118)
    bWarns,     \* the keys logger.warn was called for, in call order
    bJson,      \* outcome of JSON.stringify in emit
    \* ---- SpecCrawl ----
    cFs,        \* the directory tree under options.directory (never written)
    cPhase,     \* crawl: "idle" | "listing" | "fanout" | "emitting" | "rejected"
    mTask,      \* per root entry: the promise of traverse(entry, explore)
    sTask,      \* per module entry: the promise of traverse(entry, resolve)
    fRead,      \* per content file: the promise of read(file)
    cOrder,     \* per module: its entries in the order their promises fulfilled
    cWarn,      \* per root entry: how often logger.warn was called, by kind
    emitSt,     \* per root entry: where emit(module, contents) stands
    emitJson,   \* per root entry: result of JSON.stringify in emit
    bundle,     \* per root entry: what was written to <target>/<module>.json
    \* ---- SpecRun ----
    rVariant,   \* "part_000" | "part_001": which program runs
    rConfirm0,  \* options.confirm as computed at start-up
    rConfirm,   \* options.confirm now
    rWatch,     \* options.watch
    rInside,    \* options.target lies under options.directory (the default)
    rAssets,    \* the module's mapping holds asset directories
    rExists,    \* the target directory exists
    runs,       \* the invocations of run(), in call order
    prompts,    \* how often inquirer.prompt was called
    answers,    \* the answers given to the prompt
    wrote,      \* the kinds of output written so far
    events,     \* file names whose change the watcher has still to report
    edits       \* source changes made by the user so far

bvars == <<bPhase, bStore, bArg, bRet, bForest, bWarns, bJson>>
cvars == <<cFs, cPhase, mTask, sTask, fRead, cOrder, cWarn, emitSt, emitJson, bundle>>

rvars == <<rVariant, rConfirm0, rConfirm, rWatch, rInside, rAssets, rExists,
           runs, prompts, answers, wrote, events, edits>>

vars == <<bvars, cvars, rvars>>

----------------------------------------------------------------------------
(* Bounds *)

\* Largest number of structure elements (keys and empty lists) in one
\* structure handed to build or emit.
MaxSize == 3

\* Largest number of invocations of run() followed.
MaxRuns == 3

\* Largest number of source changes the user makes while the program runs.
MaxEdits == 1

----------------------------------------------------------------------------
(* Data model *)

Keys == {"a", "b", "c"}

\* A value of the mapping.  "doc" is what read() returns for a file: an
\* object without a children property.  "path" is what read() returns for a
\* directory (part_000 only): the location string itself.  from names the
\* file the value was read from (<<>> where it does not matter).
DocFrom(src)  == [kind |-> "doc",  hasChildren |-> FALSE, children |-> <<>>, from |-> src]
PathFrom(src) == [kind |-> "path", hasChildren |-> FALSE, children |-> <<>>, from |-> src]
Doc  == DocFrom(<<>>)
Path == PathFrom(<<>>)

\* A mapping is a function from the keys it owns to their values.
EmptyMap == [k \in {} |-> Doc]

Stores == UNION {[D -> {Doc, Path}] : D \in SUBSET Keys}

hasOwnProperty(store, key) == key \in DOMAIN store

\* What build hands back: null, a reference to the document object held by
\* the mapping under key, or the (primitive) path string held under key.
Null     == [t |-> "null", key |-> ""]
Ref(k)   == [t |-> "ref",  key |-> k]
Str(k)   == [t |-> "str",  key |-> k]

\* store[key] as a JavaScript value
Lookup(store, key) == IF store[key].kind = "doc" THEN Ref(key) ELSE Str(key)

\* Structure: a string key, or an array whose first element is a string key
\* and whose other elements are structures; the empty array.
Leaf(k)       == [arr |-> FALSE, key |-> k,  rest |-> <<>>, empty |-> FALSE]
EmptyArr      == [arr |-> TRUE,  key |-> "", rest |-> <<>>, empty |-> TRUE]
Node(k, rest) == [arr |-> TRUE,  key |-> k,  rest |-> rest, empty |-> FALSE]

RECURSIVE Trees(_), Forests(_)
\* structures of exactly n elements
Trees(n) ==
    IF n <= 0 THEN {}
    ELSE (IF n = 1 THEN {Leaf(k) : k \in Keys} \cup {EmptyArr} ELSE {})
         \cup {Node(k, f) : k \in Keys, f \in Forests(n - 1)}
\* sequences of structures with exactly n elements in total
Forests(n) ==
    IF n <= 0 THEN {<<>>}
    ELSE UNION {{<<t>> \o f : t \in Trees(i), f \in Forests(n - i)} : i \in 1..n}

Structures     == UNION {Trees(n) : n \in 1..MaxSize}
StructureLists == UNION {Forests(n) : n \in 0..MaxSize}

----------------------------------------------------------------------------
(* Tree Builder *)

NotNull(v) == v.t # "null"

\* faulty variant: the children property is never written
SetChildrenDropped(store, key, value) == store

\* element.children = value.  On a document object the property is set; on
\* a primitive string (sloppy mode) the assignment has no effect.
SetChildren(store, key, value) ==
    IF store[key].kind = "doc"
    THEN [store EXCEPT ![key].hasChildren = TRUE, ![key].children = value]
    ELSE store

\* faulty variant: the null results are kept
FilterNullKeepsAll(seq) == seq

\* .filter(child => child !== null)
FilterNull(seq) == SelectSeq(seq, NotNull)

RECURSIVE build(_, _, _), buildEach(_, _, _)

\* structure.map(block => build(store, block, parent)): the blocks are built
\* left to right on the same store.
buildEach(store, blocks, parent) ==
    IF blocks = <<>>
    THEN [rets |-> <<>>, store |-> store, warns |-> <<>>]
    ELSE LET first == build(store, Head(blocks), parent)
             more  == buildEach(first.store, Tail(blocks), parent)
         IN  [rets  |-> <<first.ret>> \o more.rets,
              store |-> more.store,
              warns |-> first.warns \o more.warns]

build(store, structure, parent) ==
    IF structure.arr
    THEN IF structure.empty
         THEN [ret |-> Null, store |-> store, warns |-> <<>>]
         ELSE LET lead == structure.key IN
              IF ~hasOwnProperty(store, lead)
              THEN [ret |-> Null, store |-> store, warns |-> <<lead>>]
              ELSE LET kids == buildEach(store, structure.rest, parent) IN
                   [ret   |-> Lookup(store, lead),
                    store |-> SetChildren(kids.store, lead, FilterNull(kids.rets)),
                    warns |-> kids.warns]
    ELSE IF ~hasOwnProperty(store, structure.key)
         THEN [ret |-> Null, store |-> store, warns |-> <<structure.key>>]
         ELSE [ret   |-> Lookup(store, structure.key),
               store |-> SetChildren(store, structure.key, <<>>),
               warns |-> <<>>]

\* JSON.stringify(model, null, 2): walks the children links from every root.
\* It throws (TypeError: circular structure) when an object is met again on
\* the path from the root that leads to it.
RECURSIVE Circular(_, _, _)
Circular(store, v, onPath) ==
    /\ v.t = "ref"
    /\ \/ v.key \in onPath
       \/ \E i \in 1..Len(store[v.key].children) :
              Circular(store, store[v.key].children[i], onPath \cup {v.key})

stringify(store, model) ==
    IF \E i \in 1..Len(model) : Circular(store, model[i], {})
    THEN "throws" ELSE "ok"

\* faulty variant: the first missing reference ends the forest
RECURSIVE UpToNull(_)
UpToNull(seq) ==
    IF seq = <<>> \/ ~NotNull(Head(seq)) THEN <<>>
    ELSE <<Head(seq)>> \o UpToNull(Tail(seq))

emitModelAborting(store, structure, module) ==
    LET built == buildEach(store, structure, module) IN
    [model |-> UpToNull(built.rets),
     store |-> built.store,
     warns |-> built.warns,
     json  |-> stringify(built.store, UpToNull(built.rets))]

\* emit, lines 118-119: the model and its serialisation
emitModel(store, structure, module) ==
    LET built == buildEach(store, structure, module) IN
    [model |-> FilterNull(built.rets),
     store |-> built.store,
     warns |-> built.warns,
     json  |-> stringify(built.store, FilterNull(built.rets))]

\* the Tree Builder variables while another specification runs
BuildIdle ==
    /\ bPhase = "idle" /\ bStore = EmptyMap /\ bArg = <<>> /\ bRet = Null
    /\ bForest = <<>> /\ bWarns = <<>> /\ bJson = "none"

\* the variables of run and the watcher while another specification runs
RunIdle ==
    /\ rVariant = "none" /\ rConfirm0 = FALSE /\ rConfirm = FALSE /\ rWatch = FALSE
    /\ rInside = FALSE /\ rAssets = FALSE /\ rExists = FALSE /\ runs = <<>>
    /\ prompts = 0 /\ answers = <<>> /\ wrote = {} /\ events = {} /\ edits = 0

----------------------------------------------------------------------------
(* The directory tree a crawl reads *)

RootListing == <<"guide", ".git", "api">>
RootNames   == {RootListing[i] : i \in 1..Len(RootListing)}
SubNames    == {"x", "y", ".cache", "notes.txt", "structure.json"}
FileNames   == {"a.md", "b.md", ".DS_Store", "img"}

\* options.exclude, default /node_modules|^[.]/, on the names of the tree
DotNames == {".git", ".cache", ".DS_Store"}

exclude(location) == location = "node_modules" \/ location \in DotNames

\* path.basename(file, '.md')
Stem(file) ==
    CASE file = "a.md" -> "a"
      [] file = "b.md" -> "b"
      [] OTHER -> file

\* resolve, lines 254-258: the key of a directory met among the content files
PathKey(m, d, f) == "/" \o m \o "/" \o d \o "/" \o f

AllFiles == [f \in FileNames |-> "file"]
SubX     == [isDir |-> TRUE,  listing |-> <<"a.md", "b.md">>,      kind |-> AllFiles]
SubY     == [isDir |-> TRUE,  listing |-> <<".DS_Store", "a.md">>, kind |-> AllFiles]
SubFile  == [isDir |-> FALSE, listing |-> <<>>,                    kind |-> AllFiles]
SubXBad  == [SubX EXCEPT !.kind = [AllFiles EXCEPT !["b.md"] = "unreadable"]]
SubXImg  == [isDir |-> TRUE,  listing |-> <<"img", "b.md">>,
             kind |-> [AllFiles EXCEPT !["img"] = "dir"]]

Subs(x, y) == [d \in SubNames |-> CASE d = "x" -> x [] d = "y" -> y [] OTHER -> SubFile]

Manifest1 == <<Leaf("a"), Node("b", <<Leaf("c")>>)>>
Manifest2 == <<Node("b", <<Leaf("a")>>)>>
ManifestLoop == <<Node("a", <<Leaf("b"), Leaf("a")>>)>>

Module(listing, ok, structure, sub) ==
    [isDir |-> TRUE, listing |-> listing, manifestOk |-> ok,
     structure |-> structure, sub |-> sub]

\* the module directories the crawl is run on
ModGood     == Module(<<"structure.json", "x", "notes.txt", "y">>, TRUE, Manifest1, Subs(SubX, SubY))
ModGoodRev  == Module(<<".cache", "y", "structure.json", "x">>, TRUE, Manifest2, Subs(SubX, SubY))
ModNoManifest == Module(<<"x", "y">>, TRUE, <<>>, Subs(SubX, SubY))
ModMalformed == Module(<<"structure.json", "x">>, FALSE, <<>>, Subs(SubX, SubY))
ModUnreadable == Module(<<"structure.json", "x", "y">>, TRUE, Manifest1, Subs(SubXBad, SubY))
ModAssets   == Module(<<"structure.json", "x">>, TRUE, Manifest2, Subs(SubXImg, SubY))
ModLoop     == Module(<<"structure.json", "x">>, TRUE, ManifestLoop, Subs(SubX, SubY))
ModBare     == Module(<<"structure.json">>, TRUE, Manifest1, Subs(SubX, SubY))
NotADir     == [ModGood EXCEPT !.isDir = FALSE]

Fixtures == {ModGood, ModGoodRev, ModNoManifest, ModMalformed, ModUnreadable,
             ModAssets, ModLoop, ModBare, NotADir}

----------------------------------------------------------------------------
(* Crawler, Module Explorer, Content Resolver *)

Range(seq) == {seq[i] : i \in 1..Len(seq)}

\* files.filter(file => !exclude(file))
Excluded(name) == exclude(name)
Kept(name) == ~exclude(name)
filterExcluded(files) == SelectSeq(files, Kept)

\* files.splice(files.indexOf('structure.json'), 1)
NotManifest(name) == name # "structure.json"
withoutManifest(files) == SelectSeq(files, NotManifest)

\* Object.assign(target, source)
assign(target, source) ==
    [k \in DOMAIN target \cup DOMAIN source |->
        IF k \in DOMAIN source THEN source[k] ELSE target[k]]

\* read(location): what the promise settles to
readOutcome(kind) ==
    CASE kind = "file" -> "doc"
      [] kind = "dir"  -> "path"
      [] OTHER         -> "rejected"

\* resolve, lines 248-264: the results, in listing order, reduced to a map
RECURSIVE resolveReduce(_, _, _, _)
resolveReduce(m, d, files, reads) ==
    IF files = <<>> THEN EmptyMap
    ELSE LET n    == Len(files)
             f    == files[n]
             map  == resolveReduce(m, d, SubSeq(files, 1, n - 1), reads)
         IN  IF reads[f] = "doc"
             THEN assign(map, [k \in {Stem(f)} |-> DocFrom(<<m, d, f>>)])
             ELSE assign(map, [k \in {PathKey(m, d, f)} |-> PathFrom(<<m, d, f>>)])

\* result => !!result[1]
Truthy(task) == task.st = "ok"

\* faulty variant: the maps are merged in the order the promises fulfilled
RECURSIVE exploreReduceAsFulfilled(_, _, _)
exploreReduceAsFulfilled(files, tasks, order) ==
    IF order = <<>> THEN EmptyMap
    ELSE LET n   == Len(order)
             map == exploreReduceAsFulfilled(files, tasks, SubSeq(order, 1, n - 1))
         IN  IF Truthy(tasks[order[n]]) THEN assign(map, tasks[order[n]].map) ELSE map

\* explore, lines 292-301: Promise.all hands the results over by index, so
\* the reduce runs over them in listing order whatever order they
\* fulfilled in.
RECURSIVE exploreReduce(_, _, _)
exploreReduce(files, tasks, order) ==
    IF files = <<>> THEN EmptyMap
    ELSE LET n   == Len(files)
             map == exploreReduce(SubSeq(files, 1, n - 1), tasks, order)
         IN  IF Truthy(tasks[files[n]]) THEN assign(map, tasks[files[n]].map) ELSE map

\* JSON.stringify of a node that is not circular: the nested value written
RECURSIVE Unfold(_, _)
Unfold(store, v) ==
    [t |-> v.t, id |-> v.key, from |-> store[v.key].from,
     children |-> IF v.t = "ref"
                  THEN [i \in 1..Len(store[v.key].children) |->
                            Unfold(store, store[v.key].children[i])]
                  ELSE <<>>]

serialize(store, model) ==
    IF stringify(store, model) = "throws" THEN <<>>
    ELSE [i \in 1..Len(model) |-> Unfold(store, model[i])]

\* Object.values(contents.mappings).filter(value => typeof value === 'string')
hasAssets(store) == \E k \in DOMAIN store : store[k].kind = "path"

NoTask    == [st |-> "none", mappings |-> EmptyMap]
NoSub     == [st |-> "none", map |-> EmptyMap]
NoWarn    == [excluded |-> 0, noManifest |-> 0, missingKey |-> 0]

ModFiles(m) == withoutManifest(filterExcluded(cFs[m].listing))
SubFiles(m, d) == filterExcluded(cFs[m].sub[d].listing)

Settled(task) == task.st \in {"false", "ok", "rejected"}

\* faulty variant: every result is handed to emit
survivesAll(task) == TRUE

\* crawl, lines 333 and 337: results.filter(result => !!result[1])
survives(task) == Truthy(task)

\* The promise of explore once the promises of its entries have settled:
\* Promise.all rejects with the first rejection and fulfils when all have.
settleModule(m, task, subs, order) ==
    IF task.st # "subs" THEN task
    ELSE IF \E d \in Range(ModFiles(m)) : subs[d].st = "rejected"
         THEN [st |-> "rejected", mappings |-> EmptyMap]
    ELSE IF \A d \in Range(ModFiles(m)) : subs[d].st \in {"false", "ok"}
         THEN [st |-> "ok", mappings |-> exploreReduce(ModFiles(m), subs, order)]
    ELSE task

\* emit up to its first await (lines 112-124) for one surviving result
emitStart(m, task) ==
    IF task.st # "ok"
    THEN [st |-> "threw", json |-> <<>>, warns |-> 0]
    ELSE LET e == emitModel(task.mappings, cFs[m].structure, m) IN
         [st    |-> IF e.json = "throws" THEN "threw"
                    ELSE IF hasAssets(task.mappings) THEN "assets" ELSE "writing",
          json  |-> serialize(e.store, e.model),
          warns |-> Len(e.warns)]

\* What follows an I/O completion inside module m before the next one is
\* handled: the promise of the module settles if it can, and then that of
\* crawl's Promise.all; its then-callback starts emit for every survivor.
Advance(m, mtask, stask, fread, order, warn) ==
    LET mt == [mtask EXCEPT ![m] = settleModule(m, mtask[m], stask[m], order[m])] IN
    /\ mTask' = mt
    /\ sTask' = stask
    /\ fRead' = fread
    /\ cOrder' = order
    /\ UNCHANGED <<cFs, bundle, bvars, rvars>>
    /\ IF cPhase # "fanout"
       THEN /\ cWarn' = warn
            /\ UNCHANGED <<cPhase, emitSt, emitJson>>
       ELSE IF \E r \in RootNames : mt[r].st = "rejected"
       THEN /\ cPhase' = "rejected"
            /\ cWarn' = warn
            /\ UNCHANGED <<emitSt, emitJson>>
       ELSE IF \A r \in RootNames : Settled(mt[r])
       THEN /\ cPhase' = "emitting"
            /\ emitSt' = [r \in RootNames |->
                             IF survives(mt[r]) THEN emitStart(r, mt[r]).st ELSE "none"]
            /\ emitJson' = [r \in RootNames |->
                             IF survives(mt[r]) THEN emitStart(r, mt[r]).json ELSE <<>>]
            /\ cWarn' = [r \in RootNames |->
                             IF survives(mt[r])
                             THEN [warn[r] EXCEPT !.missingKey = @ + emitStart(r, mt[r]).warns]
                             ELSE warn[r]]
       ELSE /\ cWarn' = warn
            /\ UNCHANGED <<cPhase, emitSt, emitJson>>

CrawlIdle ==
    /\ cFs = [r \in RootNames |-> NotADir]
    /\ cPhase = "idle"
    /\ mTask = [r \in RootNames |-> NoTask]
    /\ sTask = [r \in RootNames |-> [d \in SubNames |-> NoSub]]
    /\ fRead = [r \in RootNames |-> [d \in SubNames |-> [f \in FileNames |-> "none"]]]
    /\ cOrder = [r \in RootNames |-> <<>>]
    /\ cWarn = [r \in RootNames |-> NoWarn]
    /\ emitSt = [r \in RootNames |-> "none"]
    /\ emitJson = [r \in RootNames |-> <<>>]
    /\ bundle = [r \in RootNames |-> <<>>]

CrawlInit ==
    /\ BuildIdle
    /\ RunIdle
    /\ cFs \in {fs \in [RootNames -> Fixtures] : \A r \in RootNames : exclude(r) => fs[r] = ModGood}
    /\ cPhase = "listing"
    /\ mTask = [r \in RootNames |-> NoTask]
    /\ sTask = [r \in RootNames |-> [d \in SubNames |-> NoSub]]
    /\ fRead = [r \in RootNames |-> [d \in SubNames |-> [f \in FileNames |-> "none"]]]
    /\ cOrder = [r \in RootNames |-> <<>>]
    /\ cWarn = [r \in RootNames |-> NoWarn]
    /\ emitSt = [r \in RootNames |-> "none"]
    /\ emitJson = [r \in RootNames |-> <<>>]
    /\ bundle = [r \in RootNames |-> <<>>]

\* crawl, lines 323-331: readdir of options.directory has completed; traverse
\* is started for every entry and runs up to its stat.
CrawlListed ==
    /\ cPhase = "listing"
    /\ cPhase' = "fanout"
    /\ mTask' = [r \in RootNames |->
                    IF exclude(r) THEN [NoTask EXCEPT !.st = "false"]
                    ELSE [NoTask EXCEPT !.st = "stat"]]
    /\ cWarn' = [r \in RootNames |->
                    IF exclude(r) THEN [cWarn[r] EXCEPT !.excluded = @ + 1] ELSE cWarn[r]]
    /\ UNCHANGED <<cFs, sTask, fRead, cOrder, emitSt, emitJson, bundle, bvars, rvars>>

\* traverse, lines 312-318, for a root entry: stat has completed
ModStatDone(m) ==
    /\ mTask[m].st = "stat"
    /\ Advance(m,
               [mTask EXCEPT ![m].st = IF cFs[m].isDir THEN "readdir" ELSE "false"],
               sTask, fRead, cOrder, cWarn)

\* explore, lines 270-283: readdir of the module has completed
ModListed(m) ==
    /\ mTask[m].st = "readdir"
    /\ IF "structure.json" \in Range(filterExcluded(cFs[m].listing))
       THEN Advance(m, [mTask EXCEPT ![m].st = "manifest"], sTask, fRead, cOrder, cWarn)
       ELSE Advance(m, [mTask EXCEPT ![m].st = "false"], sTask, fRead, cOrder,
                    [cWarn EXCEPT ![m].noManifest = @ + 1])

\* explore, lines 283-291: structure.json has been read; JSON.parse throws on
\* a malformed manifest, otherwise traverse is started for every entry.
ManifestRead(m) ==
    /\ mTask[m].st = "manifest"
    /\ IF ~cFs[m].manifestOk
       THEN Advance(m, [mTask EXCEPT ![m].st = "rejected"], sTask, fRead, cOrder, cWarn)
       ELSE Advance(m, [mTask EXCEPT ![m].st = "subs"],
                    [sTask EXCEPT ![m] = [d \in SubNames |->
                        IF d \in Range(ModFiles(m))
                        THEN [NoSub EXCEPT !.st = IF exclude(d) THEN "false" ELSE "stat"]
                        ELSE NoSub]],
                    fRead,
                    [cOrder EXCEPT ![m] = @ \o SelectSeq(ModFiles(m), Excluded)],
                    [cWarn EXCEPT ![m].excluded = @ + Len(SelectSeq(ModFiles(m), Excluded))])

\* traverse, lines 312-318, for a module entry: stat has completed
SubStatDone(m, d) ==
    /\ sTask[m][d].st = "stat"
    /\ IF cFs[m].sub[d].isDir
       THEN Advance(m, mTask, [sTask EXCEPT ![m][d].st = "readdir"], fRead, cOrder, cWarn)
       ELSE Advance(m, mTask, [sTask EXCEPT ![m][d].st = "false"], fRead,
                    [cOrder EXCEPT ![m] = Append(@, d)], cWarn)

\* resolve, lines 237-247: readdir of a content directory has completed and
\* read is started for every file kept
SubListed(m, d) ==
    /\ sTask[m][d].st = "readdir"
    /\ IF SubFiles(m, d) = <<>>
       THEN Advance(m, mTask, [sTask EXCEPT ![m][d] = [st |-> "ok", map |-> EmptyMap]],
                    fRead, [cOrder EXCEPT ![m] = Append(@, d)], cWarn)
       ELSE Advance(m, mTask, [sTask EXCEPT ![m][d].st = "reading"],
                    [fRead EXCEPT ![m][d] = [f \in FileNames |->
                        IF f \in Range(SubFiles(m, d)) THEN "pending" ELSE "none"]],
                    cOrder, cWarn)

\* read, lines 195-234, has settled for one file (its stat and its readFile
\* touch nothing shared and are taken as one step); resolve's Promise.all
\* rejects with the first rejection and fulfils with the last result.
FileRead(m, d, f) ==
    /\ fRead[m][d][f] = "pending"
    /\ LET reads == [fRead[m][d] EXCEPT ![f] = readOutcome(cFs[m].sub[d].kind[f])]
           fr == [fRead EXCEPT ![m][d] = reads]
       IN  IF sTask[m][d].st # "reading"
           THEN Advance(m, mTask, sTask, fr, cOrder, cWarn)
           ELSE IF reads[f] = "rejected"
           THEN Advance(m, mTask, [sTask EXCEPT ![m][d].st = "rejected"], fr, cOrder, cWarn)
           ELSE IF \A g \in Range(SubFiles(m, d)) : reads[g] \in {"doc", "path"}
           THEN Advance(m, mTask,
                        [sTask EXCEPT ![m][d] =
                            [st |-> "ok", map |-> resolveReduce(m, d, SubFiles(m, d), reads)]],
                        fr, [cOrder EXCEPT ![m] = Append(@, d)], cWarn)
           ELSE Advance(m, mTask, sTask, fr, cOrder, cWarn)

\* emit, lines 124-184: the asset directories have been probed and copied
AssetsDone(m) ==
    /\ emitSt[m] = "assets"
    /\ emitSt' = [emitSt EXCEPT ![m] = "writing"]
    /\ UNCHANGED <<cFs, cPhase, mTask, sTask, fRead, cOrder, cWarn, emitJson, bundle, bvars, rvars>>

\* emit, lines 186-192: the bundle has been written
WriteDone(m) ==
    /\ emitSt[m] = "writing"
    /\ emitSt' = [emitSt EXCEPT ![m] = "written"]
    /\ bundle' = [bundle EXCEPT ![m] = emitJson[m]]
    /\ UNCHANGED <<cFs, cPhase, mTask, sTask, fRead, cOrder, cWarn, emitJson, bvars, rvars>>

CrawlNext ==
    \/ CrawlListed
    \/ \E m \in RootNames : ModStatDone(m)
    \/ \E m \in RootNames : ModListed(m)
    \/ \E m \in RootNames : ManifestRead(m)
    \/ \E m \in RootNames, d \in SubNames : SubStatDone(m, d)
    \/ \E m \in RootNames, d \in SubNames : SubListed(m, d)
    \/ \E m \in RootNames, d \in SubNames, f \in FileNames : FileRead(m, d, f)
    \/ \E m \in RootNames : AssetsDone(m)
    \/ \E m \in RootNames : WriteDone(m)

SpecCrawl == CrawlInit /\ [][CrawlNext]_vars

----------------------------------------------------------------------------
(* Properties of the crawl *)

\* no I/O of the crawl is outstanding
CrawlQuiet ==
    /\ cPhase \in {"emitting", "rejected"}
    /\ \A m \in RootNames :
        /\ Settled(mTask[m])
        /\ emitSt[m] \notin {"assets", "writing"}
        /\ \A d \in SubNames :
            /\ sTask[m][d].st \notin {"stat", "readdir"}
            /\ \A f \in FileNames : fRead[m][d][f] # "pending"

\* C3: when the exploration of one top-level module fails fatally, every
\* sibling module that explores successfully is still emitted.
C3_ModuleIsolation ==
    CrawlQuiet => \A m \in RootNames : mTask[m].st = "ok" => emitSt[m] # "none"

\* a module directory that passes the traversal guard and lists no
\* structure.json among its non-excluded entries
LacksManifest(m) ==
    /\ ~exclude(m)
    /\ cFs[m].isDir
    /\ "structure.json" \notin Range(filterExcluded(cFs[m].listing))

\* C5: such a module gets exactly one warning, emit is never invoked for it
\* and nothing is written for it, and it leaves the other modules alone: it
\* never rejects the crawl, and a crawl without a rejection emits every
\* module that explored successfully.
C5_NoManifestSkipped ==
    /\ \A m \in RootNames : LacksManifest(m) =>
        /\ cWarn[m].noManifest <= 1
        /\ Settled(mTask[m]) => (mTask[m].st = "false" /\ cWarn[m].noManifest = 1)
        /\ cWarn[m].excluded = 0 /\ cWarn[m].missingKey = 0
        /\ emitSt[m] = "none"
        /\ bundle[m] = <<>>
    /\ cPhase = "rejected" =>
        \E r \in RootNames : ~LacksManifest(r) /\ mTask[r].st = "rejected"
    /\ cPhase = "emitting" =>
        \A r \in RootNames : mTask[r].st = "ok" => emitSt[r] # "none"

C5_Witness ==
    /\ CrawlQuiet
    /\ cFs["guide"] = ModNoManifest /\ cFs["api"] = ModGood
    /\ cWarn["guide"].noManifest = 1
    /\ emitSt["guide"] = "none"
    /\ emitSt["api"] = "written"
    /\ bundle["api"] # <<>>

\* The mapping a module must end with, read off the directory tree alone:
\* every key is held by the file listed last among those that yield it.
EntryIsDir(m, d) == cFs[m].sub[d].isDir
KeyOf(m, d, f) == IF cFs[m].sub[d].kind[f] = "dir" THEN PathKey(m, d, f) ELSE Stem(f)
Places(m) ==
    {<<i, j>> \in (1..Len(ModFiles(m))) \X (1..Cardinality(FileNames)) :
        /\ EntryIsDir(m, ModFiles(m)[i])
        /\ j <= Len(SubFiles(m, ModFiles(m)[i]))}
PlaceKey(m, p) == KeyOf(m, ModFiles(m)[p[1]], SubFiles(m, ModFiles(m)[p[1]])[p[2]])
Later(p, q) == p[1] > q[1] \/ (p[1] = q[1] /\ p[2] >= q[2])
LastPlace(m, k) ==
    CHOOSE p \in Places(m) :
        /\ PlaceKey(m, p) = k
        /\ \A q \in Places(m) : PlaceKey(m, q) = k => Later(p, q)
ExpectedMappings(m) ==
    [k \in {PlaceKey(m, p) : p \in Places(m)} |->
        LET d == ModFiles(m)[LastPlace(m, k)[1]]
            f == SubFiles(m, d)[LastPlace(m, k)[2]]
        IN  IF cFs[m].sub[d].kind[f] = "dir"
            THEN PathFrom(<<m, d, f>>) ELSE DocFrom(<<m, d, f>>)]

ExpectedBundle(m) ==
    LET e == emitModel(ExpectedMappings(m), cFs[m].structure, m) IN
    serialize(e.store, e.model)

\* C6: for a fixed directory tree, whatever order the reads and the
\* sub-directory resolutions complete in, a module that explores
\* successfully ends with the mapping in which the entry listed last wins
\* every key, and the bundle serialised and written for it is the one that
\* mapping and the manifest determine.
C6_OrderIndependent ==
    \A m \in RootNames :
        /\ mTask[m].st = "ok" => mTask[m].mappings = ExpectedMappings(m)
        /\ emitSt[m] \in {"assets", "writing", "written"} => emitJson[m] = ExpectedBundle(m)
        /\ emitSt[m] = "written" => bundle[m] = ExpectedBundle(m)

\* y, listed after x, fulfilled before x, and its a.md still won the key a
C6_Witness ==
    /\ cFs["guide"] = ModGood
    /\ cOrder["guide"] = <<"y", "notes.txt", "x">>
    /\ emitSt["guide"] = "written"
    /\ mTask["guide"].mappings["a"].from = <<"guide", "y", "a.md">>
    /\ bundle["guide"][1].from = <<"guide", "y", "a.md">>

----------------------------------------------------------------------------
(* run(), the prompt, the output directory and the watcher *)

\* the files whose change the watcher reports: content, a manifest, other
\* files of the user, and the two files emit writes for the module
SourceNames == {"a.md", "structure.json", "notes.txt", ".DS_Store"}
BundleNames == {"guide.json", "guide.meta.json"}

\* path.extname(name).toLowerCase()
extname(name) ==
    CASE name = "a.md" -> ".md"
      [] name \in {"structure.json", "guide.json", "guide.meta.json"} -> ".json"
      [] name = "notes.txt" -> ".txt"
      [] OTHER -> ""

\* the watch callback, lines 352-359: whether the change leads to run()
remakes(confirm, name) ==
    /\ ~(~confirm \/ exclude(name))
    /\ ~(extname(name) # ".json" /\ extname(name) # ".md")

MkdirErrors == {"EEXIST", "EACCES"}

\* faulty variant: a declined prompt is not a reason to stop
afterAnswerIgnoringIt(confirmation) == "mkdir"

\* part_000 run, lines 56-65: where run() stands after the prompt's answer
afterAnswer(confirmation) == IF ~confirmation THEN "declined" ELSE "mkdir"

\* part_000 run, lines 64-75: fs.mkdir(...).catch(error => {}) settles every
\* outcome of mkdir to a fulfilled promise, so the try block never throws and
\* crawl() is the next call.
afterMkdir(outcome) == "crawl"

\* part_001 emit, lines 97-106: only EEXIST is swallowed
emitAfterMkdir(outcome) == IF outcome \in MkdirErrors /\ outcome # "EEXIST" THEN "failed" ELSE "writing"

NewRun(pc, cause) == [pc |-> pc, cause |-> cause, mk |-> "none"]

\* what mkdir of the target can answer
MkdirOutcomes == IF rExists THEN {"EEXIST"} ELSE {"ok", "EACCES"}

\* The state once the module has been loaded: options are set (part_000
\* lines 28-37, part_001 lines 23-29; part_001 reads neither confirm nor
\* watch, has no static assets, and always prompts), run() has been called
\* and stands at its first await, and the watcher is registered.
RunInit ==
    /\ BuildIdle
    /\ CrawlIdle
    /\ rVariant \in {"part_000", "part_001"}
    /\ rConfirm0 \in (IF rVariant = "part_000" THEN BOOLEAN ELSE {FALSE})
    /\ rWatch \in (IF rVariant = "part_000" THEN BOOLEAN ELSE {FALSE})
    /\ rAssets \in (IF rVariant = "part_000" THEN BOOLEAN ELSE {FALSE})
    /\ rInside \in BOOLEAN
    /\ rExists \in BOOLEAN
    /\ rConfirm = rConfirm0
    /\ runs = <<NewRun(IF rConfirm0 THEN "mkdir" ELSE "prompt", "start")>>
    /\ prompts = (IF rConfirm0 THEN 0 ELSE 1)
    /\ answers = <<>>
    /\ wrote = {}
    /\ events = {}
    /\ edits = 0

\* run: the user has answered the prompt
Answer(r, confirmation) ==
    /\ r <= Len(runs)
    /\ runs[r].pc = "prompt"
    /\ answers' = Append(answers, confirmation)
    /\ IF rVariant = "part_000"
       THEN /\ runs' = [runs EXCEPT ![r].pc = afterAnswer(confirmation)]
            /\ rConfirm' = (IF afterAnswer(confirmation) = "declined" THEN rConfirm ELSE TRUE)
       ELSE /\ runs' = [runs EXCEPT ![r].pc = IF ~confirmation THEN "declined" ELSE "crawl"]
            /\ UNCHANGED rConfirm
    /\ UNCHANGED <<rVariant, rConfirm0, rWatch, rInside, rAssets, rExists,
                   prompts, wrote, events, edits, bvars, cvars>>

\* part_000 run: fs.mkdir(options.target) has settled
RunMkdirDone(r, outcome) ==
    /\ rVariant = "part_000"
    /\ r <= Len(runs)
    /\ runs[r].pc = "mkdir"
    /\ outcome \in MkdirOutcomes
    /\ runs' = [runs EXCEPT ![r].pc = afterMkdir(outcome), ![r].mk = outcome]
    /\ rExists' = (rExists \/ outcome = "ok")
    /\ wrote' = (IF outcome = "ok" THEN wrote \cup {"mkdir"} ELSE wrote)
    /\ UNCHANGED <<rVariant, rConfirm0, rConfirm, rWatch, rInside, rAssets,
                   prompts, answers, events, edits, bvars, cvars>>

\* crawl() has fulfilled and emit has run up to its first await: the asset
\* pipeline (part_000, when the mapping holds directories), the write
\* (part_000) or mkdir (part_001)
CrawlDone(r) ==
    /\ r <= Len(runs)
    /\ runs[r].pc = "crawl"
    /\ runs' = [runs EXCEPT ![r].pc =
                    IF rVariant = "part_001" THEN "emit-mkdir"
                    ELSE IF rAssets THEN "assets" ELSE "writing"]
    /\ UNCHANGED <<rVariant, rConfirm0, rConfirm, rWatch, rInside, rAssets, rExists,
                   prompts, answers, wrote, events, edits, bvars, cvars>>

\* crawl() has rejected (a malformed manifest, an unreadable file): the
\* rejection reaches run().catch(logger.err)
CrawlFailed(r) ==
    /\ r <= Len(runs)
    /\ runs[r].pc = "crawl"
    /\ runs' = [runs EXCEPT ![r].pc = "failed"]
    /\ UNCHANGED <<rVariant, rConfirm0, rConfirm, rWatch, rInside, rAssets, rExists,
                   prompts, answers, wrote, events, edits, bvars, cvars>>

\* part_001 emit: fs.mkdir(options.target) has settled
EmitMkdirDone(r, outcome) ==
    /\ r <= Len(runs)
    /\ runs[r].pc = "emit-mkdir"
    /\ outcome \in MkdirOutcomes
    /\ runs' = [runs EXCEPT ![r].pc = emitAfterMkdir(outcome), ![r].mk = outcome]
    /\ rExists' = (rExists \/ outcome = "ok")
    /\ wrote' = (IF outcome = "ok" THEN wrote \cup {"mkdir"} ELSE wrote)
    /\ UNCHANGED <<rVariant, rConfirm0, rConfirm, rWatch, rInside, rAssets,
                   prompts, answers, events, edits, bvars, cvars>>

\* part_000 emit, line 183: the asset directories have been copied
AssetsCopied(r) ==
    /\ r <= Len(runs)
    /\ runs[r].pc = "assets"
    /\ runs' = [runs EXCEPT ![r].pc = "writing"]
    /\ wrote' = wrote \cup {"copy"}
    /\ UNCHANGED <<rVariant, rConfirm0, rConfirm, rWatch, rInside, rAssets, rExists,
                   prompts, answers, events, edits, bvars, cvars>>

\* emit: the writes have completed (part_000 lines 186-189: the bundle and
\* the meta file; part_001 line 106: the bundle).  The watcher, when there
\* is one and the target lies under the watched directory, will report them.
\* A write into a directory that does not exist rejects.
Written(r) ==
    /\ r <= Len(runs)
    /\ runs[r].pc = "writing"
    /\ IF ~rExists
       THEN /\ runs' = [runs EXCEPT ![r].pc = "failed"]
            /\ UNCHANGED <<wrote, events>>
       ELSE /\ runs' = [runs EXCEPT ![r].pc = "done"]
            /\ wrote' = wrote \cup (IF rVariant = "part_000" THEN {"bundle", "meta"} ELSE {"bundle"})
            /\ events' = (IF rWatch /\ rInside THEN events \cup BundleNames ELSE events)
    /\ UNCHANGED <<rVariant, rConfirm0, rConfirm, rWatch, rInside, rAssets, rExists,
                   prompts, answers, edits, bvars, cvars>>

\* the user changes a file under options.directory
SourceChange(name) ==
    /\ edits < MaxEdits
    /\ name \in SourceNames
    /\ edits' = edits + 1
    /\ events' = (IF rWatch THEN events \cup {name} ELSE events)
    /\ UNCHANGED <<rVariant, rConfirm0, rConfirm, rWatch, rInside, rAssets, rExists,
                   runs, prompts, answers, wrote, bvars, cvars>>

\* the watch callback, lines 351-365, is called for one changed file; a
\* change that passes its tests calls run(), which runs up to its first
\* await
Watch(name) ==
    /\ rWatch
    /\ name \in events
    /\ events' = events \ {name}
    /\ IF remakes(rConfirm, name)
       THEN /\ Len(runs) < MaxRuns
            /\ runs' = Append(runs, NewRun(IF rConfirm THEN "mkdir" ELSE "prompt",
                                           IF name \in BundleNames THEN "bundle" ELSE "source"))
            /\ prompts' = (IF rConfirm THEN prompts ELSE prompts + 1)
       ELSE UNCHANGED <<runs, prompts>>
    /\ UNCHANGED <<rVariant, rConfirm0, rConfirm, rWatch, rInside, rAssets, rExists,
                   answers, wrote, edits, bvars, cvars>>

RunIds == 1..MaxRuns

RunNext ==
    \/ \E r \in RunIds, confirmation \in BOOLEAN : Answer(r, confirmation)
    \/ \E r \in RunIds, outcome \in {"ok"} \cup MkdirErrors : RunMkdirDone(r, outcome)
    \/ \E r \in RunIds, outcome \in {"ok"} \cup MkdirErrors : EmitMkdirDone(r, outcome)
    \/ \E r \in RunIds : CrawlDone(r)
    \/ \E r \in RunIds : CrawlFailed(r)
    \/ \E r \in RunIds : AssetsCopied(r)
    \/ \E r \in RunIds : Written(r)
    \/ \E name \in SourceNames : SourceChange(name)
    \/ \E name \in SourceNames \cup BundleNames : Watch(name)

SpecRun == RunInit /\ [][RunNext]_vars

----------------------------------------------------------------------------
(* Properties of run and the watcher *)

\* C7: with confirm false or absent nothing is written (no output
\* directory, bundle, meta file or asset copy) before the user has answered
\* the prompt with yes, also across crawls started by the watcher; after a
\* declined prompt nothing is written at all; with confirm true the prompt
\* is never shown.
C7_ConfirmBeforeWrite ==
    /\ (~rConfirm0 /\ TRUE \notin Range(answers)) => wrote = {}
    /\ FALSE \in Range(answers) => wrote = {}
    /\ rConfirm0 => prompts = 0
    /\ \A r \in 1..Len(runs) :
         runs[r].pc \in {"mkdir", "crawl", "emit-mkdir", "assets", "writing", "done"}
         => (rConfirm0 \/ TRUE \in Range(answers))

\* confirm absent, the prompt answered yes, and a run started by the
\* watcher has written the bundle
C7_Witness ==
    /\ rVariant = "part_000" /\ ~rConfirm0 /\ rWatch
    /\ answers = <<TRUE>>
    /\ Len(runs) >= 2 /\ runs[2].cause = "source" /\ runs[2].pc = "done"
    /\ "bundle" \in wrote

\* C8: a creation error other than EEXIST aborts the run: no crawl and no
\* bundle write follows it.
C8_MkdirErrorAborts ==
    \A r \in 1..Len(runs) :
        (runs[r].mk \in MkdirErrors /\ runs[r].mk # "EEXIST")
        => runs[r].pc \notin {"crawl", "assets", "writing", "done"}

\* C10: with the target inside the watched directory, the bundles a crawl
\* writes do not start a further crawl.
C10_NoSelfTrigger ==
    (rWatch /\ rInside) => \A r \in 1..Len(runs) : runs[r].cause # "bundle"

----------------------------------------------------------------------------
(* SpecBuild: build and emit applied to every bounded input *)

BuildInit ==
    /\ CrawlIdle
    /\ RunIdle
    /\ bPhase = "ready"
    /\ bStore \in Stores
    /\ bArg = <<>>
    /\ bRet = Null
    /\ bForest = <<>>
    /\ bWarns = <<>>
    /\ bJson = "none"

CallBuild ==
    /\ bPhase = "ready"
    /\ \E s \in Structures :
         LET r == build(bStore, s, "m") IN
         /\ bArg' = <<s>>
         /\ bRet' = r.ret
         /\ bStore' = r.store
         /\ bWarns' = r.warns
    /\ bPhase' = "built"
    /\ UNCHANGED <<bForest, bJson, cvars, rvars>>

CallEmit ==
    /\ bPhase = "ready"
    /\ \E ss \in StructureLists :
         LET r == emitModel(bStore, ss, "m") IN
         /\ bArg' = ss
         /\ bForest' = r.model
         /\ bStore' = r.store
         /\ bWarns' = r.warns
         /\ bJson' = r.json
    /\ bPhase' = "emitted"
    /\ UNCHANGED <<bRet, cvars, rvars>>

BuildNext == CallBuild \/ CallEmit

SpecBuild == BuildInit /\ [][BuildNext]_vars

----------------------------------------------------------------------------
(* Properties of the Tree Builder *)

\* What the claims expect, read off the structure and the presence of keys
\* alone (never from build).
HeadMissing(store, s) == ~s.empty /\ ~hasOwnProperty(store, s.key)

ExpectedRet(store, s) ==
    IF s.empty \/ ~hasOwnProperty(store, s.key) THEN Null ELSE Lookup(store, s.key)

RECURSIVE ExpectedList(_, _)
ExpectedList(store, blocks) ==
    IF blocks = <<>> THEN <<>>
    ELSE IF ExpectedRet(store, Head(blocks)) = Null
         THEN ExpectedList(store, Tail(blocks))
         ELSE <<ExpectedRet(store, Head(blocks))>> \o ExpectedList(store, Tail(blocks))

RECURSIVE ExpectedWarns(_, _), ExpectedWarnsEach(_, _)
ExpectedWarns(store, s) ==
    IF s.empty THEN <<>>
    ELSE IF ~hasOwnProperty(store, s.key) THEN <<s.key>>
    ELSE ExpectedWarnsEach(store, s.rest)
ExpectedWarnsEach(store, blocks) ==
    IF blocks = <<>> THEN <<>>
    ELSE ExpectedWarns(store, Head(blocks)) \o ExpectedWarnsEach(store, Tail(blocks))

IsDoc(store, k) == hasOwnProperty(store, k) /\ store[k].kind = "doc"

\* C1: build of a non-empty list [k, ...rest] whose head k is in the mapping
\* returns the very value stored at mapping[k]; when that value is a
\* document its children field is exactly the non-null results of building
\* the elements of rest, in declared order.
C1_BuildList ==
    (bPhase = "built" /\ bArg[1].arr /\ ~bArg[1].empty
        /\ hasOwnProperty(bStore, bArg[1].key))
    => /\ bRet = Lookup(bStore, bArg[1].key)
       /\ IsDoc(bStore, bArg[1].key) =>
            /\ bRet = Ref(bArg[1].key)
            /\ bStore[bArg[1].key].hasChildren
            /\ bStore[bArg[1].key].children = ExpectedList(bStore, bArg[1].rest)

\* a list whose rest holds a missing reference between two kept siblings
C1_Witness ==
    /\ bPhase = "built"
    /\ bArg[1] = Node("a", <<Leaf("b"), Leaf("c")>>)
    /\ IsDoc(bStore, "a") /\ IsDoc(bStore, "c") /\ ~hasOwnProperty(bStore, "b")
    /\ bRet = Ref("a")
    /\ bStore["a"].children = <<Ref("c")>>

\* C4: build of a scalar key k returns null iff k is absent from the
\* mapping; when k holds a document, build returns that document with its
\* children set to the empty sequence.
C4_BuildScalar ==
    (bPhase = "built" /\ ~bArg[1].arr)
    => /\ (bRet = Null) <=> ~hasOwnProperty(bStore, bArg[1].key)
       /\ hasOwnProperty(bStore, bArg[1].key) => bRet = Lookup(bStore, bArg[1].key)
       /\ IsDoc(bStore, bArg[1].key) =>
            /\ bRet = Ref(bArg[1].key)
            /\ bStore[bArg[1].key].hasChildren
            /\ bStore[bArg[1].key].children = <<>>

C4_Witness ==
    /\ bPhase = "built"
    /\ bArg[1] = Leaf("b")
    /\ IsDoc(bStore, "b")
    /\ bRet = Ref("b")
    /\ bStore["b"].hasChildren /\ bStore["b"].children = <<>>

\* C2: a reference (scalar or list head) to a key absent from the mapping
\* makes build log one warning for it and return null; the forest of emit
\* holds, in declared order, every top-level entry whose key is present, and
\* one warning is logged per dropped reference met.
C2_MissingKeyDropped ==
    /\ (bPhase = "built" /\ HeadMissing(bStore, bArg[1]))
        => (bRet = Null /\ bWarns = <<bArg[1].key>>)
    /\ bPhase = "built" => bWarns = ExpectedWarns(bStore, bArg[1])
    /\ bPhase = "emitted"
        => /\ bForest = ExpectedList(bStore, bArg)
           /\ bWarns = ExpectedWarnsEach(bStore, bArg)
           /\ \A i \in 1..Len(bArg) :
                (~bArg[i].empty /\ IsDoc(bStore, bArg[i].key))
                => /\ bStore[bArg[i].key].hasChildren
                   /\ \E j \in 1..Len(bForest) : bForest[j] = Ref(bArg[i].key)

\* emit of ["a", "b", "c"] with b missing keeps a and c, in that order
C2_Witness ==
    /\ bPhase = "emitted"
    /\ bArg = <<Leaf("a"), Leaf("b"), Leaf("c")>>
    /\ ~hasOwnProperty(bStore, "b")
    /\ bForest = <<Ref("a"), Ref("c")>>
    /\ bWarns = <<"b">>

\* C9: the forest produced by build is a finite tree (no document is
\* reachable from itself through children links), so JSON.stringify in emit
\* completes.
C9_ForestIsFiniteTree ==
    bPhase = "emitted"
    => /\ \A i \in 1..Len(bForest) : ~Circular(bStore, bForest[i], {})
       /\ bJson = "ok"

====
